---- MODULE Spec2Model ----
(***************************************************************************)
(* The plugin runtime of LangBot: pkg/plugin/manager.py (PluginManager)    *)
(* and pkg/plugin/loaders/classic.py (PluginLoader).                       *)
(*                                                                         *)
(* Every coroutine of the manager is a task; a task's step is the code     *)
(* between two awaits, so the steps of one coroutine are atomic and the    *)
(* event loop may run another task only at an await.                       *)
(***************************************************************************)
EXTENDS Integers, Sequences, FiniteSets, TLC

\* ------------------------------------------------------------- bounds
NumUnits == 3          \* plugin units that exist (on disk or installable)
MaxPriority == 2       \* priorities a reorder entry may carry: 0..MaxPriority
MaxEntries == 2        \* entries of one reorder request
MaxScript == 2         \* registration calls and throws of one unit's module

Units == 1..NumUnits
Priorities == 0..MaxPriority
\* the coroutines that can be in flight on the manager at once, and the one
\* that runs when the manager is called by one caller at a time
TaskIds == {1, 2}
Serial == {1}

\* plugin_name of each unit, and one name no unit has
UnitName(u) == <<"p1", "p2", "p3", "p4", "p5">>[u]
Names == {UnitName(u) : u \in Units} \cup {"ghost"}

Configs == {"c0", "c1"}
DefaultConfig == "c0"

\* event classes; every unit registers a handler for Greeting, the even
\* units one for Farewell too
EventTypes == {"Greeting", "Farewell"}
event_handlers(u) == IF u % 2 = 0 THEN EventTypes ELSE {"Greeting"}

\* attributes of an event, and the keys and values handlers return
EventFields == {"text"}
Keys == {"text", "bogus"}
Values == {"x", "y"}

\* plugin_inst: None, or the live object with its config attribute
NoInst == <<>>
Inst(c) == <<c>>

VARIABLES
    installed,          \* units whose files are in plugins/
    store,              \* PluginSetting rows, by (plugin_author, plugin_name)
    plugin_containers,  \* PluginManager.plugin_containers: a list of references
    rc,                 \* the RuntimeContainer objects the references point to
    tasks,              \* the coroutines: what each runs and where it is
    loader_plugins,     \* PluginLoader.plugins: what the loader has registered
    modules,            \* what executing each unit's module does
    last_call           \* what the call that returned last was and did

vars ==
    <<installed, store, plugin_containers, rc, tasks, loader_plugins, modules,
      last_call>>

Idle == [op |-> "idle"]

\* ------------------------------------------------------------ helpers
RECURSIVE SetToSeq(_)
SetToSeq(S) ==
    IF S = {} THEN <<>>
    ELSE LET m == CHOOSE x \in S : \A y \in S : x <= y
         IN <<m>> \o SetToSeq(S \ {m})

\* context.RuntimeContainer as register() builds it: MOUNTED, no instance
NewContainer(idx) ==
    [enabled |-> TRUE, priority |-> idx, plugin_config |-> DefaultConfig,
     status |-> "MOUNTED", plugin_inst |-> NoInst]

\* list.sort(key=lambda x: x.priority): stable, ascending
InsertBeforeEqual(sorted, u, cont) ==
    LET k == Cardinality({j \in 1..Len(sorted) :
                            cont[sorted[j]].priority < cont[u].priority})
    IN SubSeq(sorted, 1, k) \o <<u>> \o SubSeq(sorted, k + 1, Len(sorted))

InsertByPriority(sorted, u, cont) ==
    LET k == Cardinality({j \in 1..Len(sorted) :
                            cont[sorted[j]].priority <= cont[u].priority})
    IN SubSeq(sorted, 1, k) \o <<u>> \o SubSeq(sorted, k + 1, Len(sorted))

RECURSIVE SortFrom(_, _, _, _)
SortFrom(list, i, acc, cont) ==
    IF i > Len(list) THEN acc
    ELSE SortFrom(list, i + 1, InsertByPriority(acc, list[i], cont), cont)

Unsorted(list, cont) == list

SortByPriorityReversed(list, cont) ==
    LET up == SortFrom(list, 1, <<>>, cont)
    IN [j \in 1..Len(up) |-> up[Len(up) + 1 - j]]

SortByPriority(list, cont) == SortFrom(list, 1, <<>>, cont)

\* get_plugin_by_name: the first container of the list with that name
IndexByName(list, name) ==
    LET hits == {j \in 1..Len(list) : UnitName(list[j]) = name}
    IN IF hits = {} THEN 0 ELSE CHOOSE j \in hits : \A k \in hits : j <= k

\* dump_plugin_container_setting: UPDATE ... WHERE author, name (no row: no-op)
DumpSettingKeepPriority(st, u, cont) ==
    [st EXCEPT ![u] =
        IF st[u] = <<>> THEN <<>>
        ELSE <<[enabled |-> cont[u].enabled, priority |-> Head(st[u]).priority,
                config |-> cont[u].plugin_config]>>]

DumpSetting(st, u, cont) ==
    [st EXCEPT ![u] =
        IF st[u] = <<>> THEN <<>>
        ELSE <<[enabled |-> cont[u].enabled, priority |-> cont[u].priority,
                config |-> cont[u].plugin_config]>>]

\* the coroutine returns ret, or raises (ret = "raise"); its locals stay
\* readable until its caller has taken the result
Done(task, ret) == [pc |-> "done", ret |-> ret] @@ task

Finish(t, ret) == tasks' = [tasks EXCEPT ![t] = Done(tasks[t], ret)]

\* a coroutine is free to run a call; of two free ones the first takes
\* it, and the second one a call made while the first is at an await
CanStart(t) ==
    /\ tasks[t] = Idle
    /\ \A s \in TaskIds : s < t => tasks[s] # Idle /\ tasks[s].pc # "done"

\* ------------------------------------------------------------ discovery
\* A module's execution is a sequence of calls of register and of handler,
\* ended by a throw or by its last statement.
Modules == UNION {[1..n -> {"register", "handler", "throw"}] : n \in 0..MaxScript}

\* the module of a plugin as plugins are written: registered, with handlers
DefaultModule == <<"register", "handler">>

\* _current_container: None, or the container register built for a unit,
\* with the units whose handler calls were attached to it
NoContainer == [owner |-> 0, handlers |-> {}]

\* _current_container as the import of the next module finds it
CurrentKept(current) == current

CurrentAtImport(current) == NoContainer

\* register builds a container and makes it current; handler attaches to
\* the current container, and does nothing when there is none
RegistrationCall(current, u, call) ==
    IF call = "register" THEN [owner |-> u, handlers |-> {}]
    ELSE IF current = NoContainer THEN current
    ELSE [current EXCEPT !.handlers = @ \cup {u}]

\* importlib.import_module of unit u: _current_container after it, and
\* whether the import raised
RECURSIVE ImportModule(_, _, _, _)
ImportModule(current, u, module, k) ==
    IF k > Len(module) THEN [current |-> current, raised |-> FALSE]
    ELSE IF module[k] = "throw" THEN [current |-> current, raised |-> TRUE]
    ELSE ImportModule(RegistrationCall(current, u, module[k]), u, module, k + 1)

\* _walk_plugin_path over the units in order: the containers appended to
\* the loader's plugins
RECURSIVE WalkPluginPath(_, _, _, _, _)
WalkPluginPath(units, mods, k, current, plugins) ==
    IF k > Len(units) THEN plugins
    ELSE LET u == units[k]
             r == ImportModule(CurrentAtImport(current), u, mods[u], 1)
         IN WalkPluginPath(units, mods, k + 1, r.current,
                IF ~r.raised /\ r.current # NoContainer
                THEN Append(plugins, r.current) ELSE plugins)

\* the units whose containers a walk appends, in order
Discovered(units, mods) ==
    LET plugins == WalkPluginPath(units, mods, 1, NoContainer, <<>>)
    IN [j \in 1..Len(plugins) |-> plugins[j].owner]

\* ------------------------------------------------------------- start-up
InitManager ==
    /\ installed \in SUBSET Units
    /\ store = [u \in Units |-> <<>>]
    /\ plugin_containers = <<>>
    /\ rc = [u \in Units |-> NewContainer(0)]
    /\ tasks = [t \in TaskIds |->
                  IF t = 1 THEN [op |-> "boot", pc |-> "load_plugins"] ELSE Idle]
    /\ loader_plugins = <<>>
    /\ last_call = [kind |-> "none"]

Init ==
    /\ InitManager
    /\ modules = [u \in Units |-> DefaultModule]

\* the same with modules of every kind in plugins/
InitDiscover ==
    /\ InitManager
    /\ modules \in [Units -> Modules]

\* ------------------------------------------- load_plugins and its merge
\* load_plugins is called on the manager as it is, by a caller other than
\* the start-up and the reload: the list and the loader keep what they have
call_load_plugins(t) ==
    /\ CanStart(t)
    /\ Len(plugin_containers) <= NumUnits
    /\ tasks' = [tasks EXCEPT ![t] = [op |-> "load_plugins", pc |-> "load_plugins"]]
    /\ UNCHANGED <<modules, loader_plugins, last_call, installed, store, plugin_containers, rc>>

\* load_plugins has sorted the list: it returns, to its caller or to the
\* start-up or reload, which goes on to initialize_plugins
AfterLoad(task) ==
    IF task.op = "load_plugins" THEN Done(task, "None")
    ELSE [failed |-> {}] @@ [task EXCEPT !.pc = "initialize_plugins", !.i = 1]

\* Both loaders have run and their lists are appended to plugin_containers.
\* The loader registers the units it has not imported before and keeps what
\* it registered earlier. With nothing to merge the sort follows without an
\* await.
load_plugins(t) ==
    /\ tasks[t].op # "idle"
    /\ tasks[t].pc = "load_plugins"
    /\ LET known == {loader_plugins[j] : j \in 1..Len(loader_plugins)}
           found == Discovered(SetToSeq(installed \ known), modules)
           base == Len(plugin_containers) + Len(loader_plugins)
           list == plugin_containers \o loader_plugins \o found
       IN /\ rc' = [u \in Units |->
                      IF \E j \in 1..Len(found) : found[j] = u
                      THEN NewContainer(base + (CHOOSE j \in 1..Len(found) : found[j] = u) - 1)
                      ELSE rc[u]]
          /\ loader_plugins' = loader_plugins \o found
          /\ plugin_containers' = list
          /\ tasks' = [tasks EXCEPT ![t] =
                IF list = <<>> THEN AfterLoad(tasks[t] @@ [i |-> 1])
                ELSE [tasks[t] EXCEPT !.pc = "load_plugin_settings"] @@ [i |-> 1]]
    /\ UNCHANGED <<modules, last_call, installed, store>>

\* One container of load_plugin_settings: a row is inserted, or the row
\* overwrites the container. After the last one load_plugins sorts the list.
MergeSettingKeepPriority(cont, st, u) ==
    IF st[u] = <<>> THEN cont
    ELSE [cont EXCEPT ![u].enabled = Head(st[u]).enabled,
                      ![u].plugin_config = Head(st[u]).config]

MergeSetting(cont, st, u) ==
    IF st[u] = <<>> THEN cont
    ELSE [cont EXCEPT ![u].enabled = Head(st[u]).enabled,
                      ![u].priority = Head(st[u]).priority,
                      ![u].plugin_config = Head(st[u]).config]

InsertSettingFirst(cont, st, u) ==
    IF st[u] = <<>>
    THEN [st EXCEPT ![u] = <<[enabled |-> cont[u].enabled,
                              priority |-> 0,
                              config |-> cont[u].plugin_config]>>]
    ELSE st

InsertSetting(cont, st, u) ==
    IF st[u] = <<>>
    THEN [st EXCEPT ![u] = <<[enabled |-> cont[u].enabled,
                              priority |-> cont[u].priority,
                              config |-> cont[u].plugin_config]>>]
    ELSE st

load_plugin_settings(t) ==
    /\ tasks[t].op # "idle"
    /\ tasks[t].pc = "load_plugin_settings"
    /\ LET i == tasks[t].i
           u == plugin_containers[i]
           last == i >= Len(plugin_containers)
       IN /\ rc' = MergeSetting(rc, store, u)
          /\ store' = InsertSetting(rc, store, u)
          /\ plugin_containers' =
                IF last THEN SortByPriority(plugin_containers, rc')
                ELSE plugin_containers
          /\ tasks' = [tasks EXCEPT ![t] =
                IF last THEN AfterLoad(tasks[t]) ELSE [@ EXCEPT !.i = i + 1]]
    /\ UNCHANGED <<modules, loader_plugins, last_call, installed>>

\* execute_async raises on the select or the insert of one container:
\* load_plugin_settings has no handler, nor has load_plugins, so the
\* exception leaves both, before the sort
persistence_fails(t) ==
    /\ tasks[t].op # "idle"
    /\ tasks[t].pc = "load_plugin_settings"
    /\ tasks' = [tasks EXCEPT ![t] =
          Done([store_failed |-> plugin_containers[tasks[t].i]] @@ tasks[t], "raise")]
    /\ UNCHANGED <<modules, loader_plugins, last_call, installed, store, plugin_containers, rc>>

\* ------------------------------------------------------ initialization
\* initialize_plugin up to its await: the instance is built and configured
ConstructUnconfigured(cont, u) ==
    [cont EXCEPT ![u].plugin_inst = Inst(DefaultConfig)]

Construct(cont, u) ==
    [cont EXCEPT ![u].plugin_inst = Inst(cont[u].plugin_config)]

\* initialize_plugin after the hook has returned
MarkInitialized(cont, u) == [cont EXCEPT ![u].status = "INITIALIZED"]

\* initialize_plugins: the loop up to the next hook it awaits, or to its end
initialize_plugins(t) ==
    /\ tasks[t].op # "idle"
    /\ tasks[t].pc = "initialize_plugins"
    /\ LET i == tasks[t].i
       IN IF i > Len(plugin_containers)
          THEN /\ Finish(t, "None")
               /\ UNCHANGED rc
          ELSE LET u == plugin_containers[i]
               IN IF ~rc[u].enabled
                  THEN /\ tasks' = [tasks EXCEPT ![t].i = i + 1]
                       /\ UNCHANGED rc
                  ELSE /\ rc' = Construct(rc, u)
                       /\ tasks' = [tasks EXCEPT ![t].pc = "initialize_hook"]
    /\ UNCHANGED <<modules, loader_plugins, last_call, installed, store, plugin_containers>>

\* where the loop of initialize_plugins is after a hook threw: the except
\* clause logs and continues with the next container
StopAfterThrow(i, len) == len + 1

NextAfterThrow(i, len) == i + 1

\* the plugin's initialize() returns or throws; initialize_plugins logs a
\* throw and goes on with the next container. failed: the containers whose
\* hook threw in this run of the loop
initialize_hook(t) ==
    /\ tasks[t].op # "idle"
    /\ tasks[t].pc = "initialize_hook"
    /\ \E ok \in BOOLEAN :
         LET i == tasks[t].i
             u == plugin_containers[i]
         IN /\ rc' = IF ok THEN MarkInitialized(rc, u) ELSE rc
            /\ tasks' = [tasks EXCEPT ![t] =
                  [@ EXCEPT !.pc = "initialize_plugins",
                            !.i = IF ok THEN i + 1
                                  ELSE NextAfterThrow(i, Len(plugin_containers)),
                            !.failed = IF ok THEN @ ELSE @ \cup {u}]]
    /\ UNCHANGED <<modules, loader_plugins, last_call, installed, store, plugin_containers>>

\* ------------------------------------------------ update_plugin_switch
\* destroy_plugin returns at once unless the container is INITIALIZED
NeedsDestroyNever(container) == FALSE

NeedsDestroy(container) == container.status = "INITIALIZED"

\* destroy_plugin after the hook has returned
MarkDestroyed(cont, u) ==
    [cont EXCEPT ![u].plugin_inst = NoInst, ![u].status = "MOUNTED"]

\* destroy_plugin called on a container of the list
destroy_plugin(t) ==
    /\ CanStart(t)
    /\ \E j \in 1..Len(plugin_containers) :
         LET u == plugin_containers[j]
             me == [op |-> "destroy_plugin", pc |-> "destroy_hook",
                    plugin |-> u, was |-> rc[u]]
         IN tasks' = [tasks EXCEPT ![t] =
               IF NeedsDestroy(rc[u]) THEN me ELSE Done(me, "None")]
    /\ UNCHANGED <<modules, loader_plugins, last_call, installed, store, plugin_containers, rc>>

\* destroy_plugins: the next container, from position i on, that is
\* INITIALIZED; 0 when the loop finds none
NextInitialized(list, cont, i) ==
    LET hits == {j \in i..Len(list) : cont[list[j]].status = "INITIALIZED"}
    IN IF hits = {} THEN 0 ELSE CHOOSE j \in hits : \A k \in hits : j <= k

\* destroy_plugins up to the first hook it awaits, or to its end
destroy_plugins(t) ==
    /\ CanStart(t)
    /\ LET j == NextInitialized(plugin_containers, rc, 1)
           me == [op |-> "destroy_plugins", pc |-> "destroy_hook", i |-> j,
                  plugin |-> IF j = 0 THEN 0 ELSE plugin_containers[j]]
       IN tasks' = [tasks EXCEPT ![t] = IF j = 0 THEN Done(me, "None") ELSE me]
    /\ UNCHANGED <<modules, loader_plugins, last_call, installed, store, plugin_containers, rc>>

\* the destroy hook returns or throws. destroy_plugin has no handler for a
\* throw; destroy_plugins logs it and goes on with the next container
destroy_hook(t) ==
    /\ tasks[t].op \in {"destroy_plugin", "destroy_plugins"}
    /\ tasks[t].pc = "destroy_hook"
    /\ \E ok \in BOOLEAN :
         /\ rc' = IF ok THEN MarkDestroyed(rc, tasks[t].plugin) ELSE rc
         /\ IF tasks[t].op = "destroy_plugin"
            THEN Finish(t, IF ok THEN "None" ELSE "raise")
            ELSE LET j == NextInitialized(plugin_containers, rc', tasks[t].i + 1)
                 IN tasks' = [tasks EXCEPT ![t] =
                       IF j = 0 THEN Done(tasks[t], "None")
                       ELSE [@ EXCEPT !.i = j, !.plugin = plugin_containers[j]]]
    /\ UNCHANGED <<modules, loader_plugins, last_call, installed, store, plugin_containers>>

\* the value update_plugin_switch returns when the flag is already there
SwitchNoChangeTrue == "True"

SwitchNoChange == "False"

update_plugin_switch(t) ==
    /\ CanStart(t)
    /\ \E plugin_name \in Names, new_status \in BOOLEAN :
         LET idx == IndexByName(plugin_containers, plugin_name)
             me == [op |-> "update_plugin_switch", pc |-> "start",
                    plugin_name |-> plugin_name, new_status |-> new_status,
                    idx |-> idx,
                    \* the container the loop holds on to, 0 for none
                    plugin |-> IF idx = 0 THEN 0 ELSE plugin_containers[idx],
                    was |-> IF idx = 0 THEN NewContainer(0)
                            ELSE rc[plugin_containers[idx]]]
         IN IF idx = 0
            THEN /\ tasks' = [tasks EXCEPT ![t] = Done(me, "False")]
                 /\ UNCHANGED rc
            ELSE LET u == plugin_containers[idx]
                 IN IF rc[u].enabled = new_status
                    THEN /\ tasks' = [tasks EXCEPT ![t] = Done(me, SwitchNoChange)]
                         /\ UNCHANGED rc
                    ELSE IF new_status
                    THEN /\ rc' = Construct(rc, u)
                         /\ tasks' = [tasks EXCEPT ![t] = [me EXCEPT !.pc = "switch_hook"]]
                    ELSE IF NeedsDestroy(rc[u])
                    THEN /\ tasks' = [tasks EXCEPT ![t] = [me EXCEPT !.pc = "switch_hook"]]
                         /\ UNCHANGED rc
                    ELSE /\ rc' = [rc EXCEPT ![u].enabled = new_status]
                         /\ tasks' = [tasks EXCEPT ![t] = [me EXCEPT !.pc = "switch_dump"]]
    /\ UNCHANGED <<modules, loader_plugins, last_call, installed, store, plugin_containers>>

\* the init or destroy hook awaited by update_plugin_switch returns or
\* throws; nothing catches a throw, so it leaves update_plugin_switch
switch_hook(t) ==
    /\ tasks[t].op = "update_plugin_switch"
    /\ tasks[t].pc = "switch_hook"
    /\ LET u == tasks[t].plugin
           new_status == tasks[t].new_status
       IN \E ok \in BOOLEAN :
            IF ~ok
            THEN /\ tasks' = [tasks EXCEPT ![t] =
                       Done([hook_threw |-> TRUE] @@ tasks[t], "raise")]
                 /\ UNCHANGED rc
            ELSE /\ rc' = [(IF new_status THEN MarkInitialized(rc, u)
                            ELSE MarkDestroyed(rc, u))
                           EXCEPT ![u].enabled = new_status]
                 /\ tasks' = [tasks EXCEPT ![t].pc = "switch_dump"]
    /\ UNCHANGED <<modules, loader_plugins, last_call, installed, store, plugin_containers>>

switch_dump(t) ==
    /\ tasks[t].op = "update_plugin_switch"
    /\ tasks[t].pc = "switch_dump"
    /\ store' = DumpSetting(store, tasks[t].plugin, rc)
    /\ Finish(t, "True")
    /\ UNCHANGED <<modules, loader_plugins, last_call, installed, plugin_containers, rc>>

\* ----------------------------------------------------- reorder_plugins
Entries == UNION {[1..n -> [name : Names, priority : Priorities]] : n \in 0..MaxEntries}

\* one entry: the first container with that name gets the priority
ApplyEntry(cont, list, e) ==
    LET idx == IndexByName(list, e.name)
    IN IF idx = 0 THEN cont ELSE [cont EXCEPT ![list[idx]].priority = e.priority]

RECURSIVE ApplyEntries(_, _, _, _)
ApplyEntries(cont, list, entries, k) ==
    IF k > Len(entries) THEN cont
    ELSE ApplyEntries(ApplyEntry(cont, list, entries[k]), list, entries, k + 1)

\* the priority the request asks for each unit's name: that of the last
\* entry with the name, -1 when no entry has it
Requested(entries) ==
    [u \in Units |->
        LET hits == {k \in 1..Len(entries) : entries[k].name = UnitName(u)}
        IN IF hits = {} THEN -1
           ELSE entries[CHOOSE k \in hits : \A m \in hits : m <= k].priority]

\* requests that move one plugin to the front
FrontEntries ==
    {plugins \in Entries : Len(plugins) = 1 /\ plugins[1].priority = 0}

\* reorder_plugins called with one of the given requests: the entries are
\* applied and the list sorted before the first await
Reordering(t, requests) ==
    /\ CanStart(t)
    /\ \E plugins \in requests :
         LET me == [op |-> "reorder_plugins", pc |-> "reorder_dump",
                    requested |-> Requested(plugins), i |-> 1]
         IN /\ rc' = ApplyEntries(rc, plugin_containers, plugins, 1)
            /\ plugin_containers' = SortByPriority(plugin_containers, rc')
            /\ tasks' = [tasks EXCEPT ![t] =
                  IF plugin_containers = <<>> THEN Done(me, "None") ELSE me]
    /\ UNCHANGED <<modules, loader_plugins, last_call, installed, store>>

reorder_plugins(t) == Reordering(t, Entries)

\* the same for requests that move one plugin to the front
reorder_front(t) == Reordering(t, FrontEntries)

\* one container's settings are written; the loop ends after the last
reorder_dump(t) ==
    /\ tasks[t].op = "reorder_plugins"
    /\ tasks[t].pc = "reorder_dump"
    /\ LET i == tasks[t].i
       IN /\ store' = DumpSetting(store, plugin_containers[i], rc)
          /\ IF i >= Len(plugin_containers)
             THEN Finish(t, "None")
             ELSE tasks' = [tasks EXCEPT ![t].i = i + 1]
    /\ UNCHANGED <<modules, loader_plugins, last_call, installed, plugin_containers, rc>>

\* --------------------------------------------------- set_plugin_config
\* plugin_container.plugin_inst.config = new_config raises when there is
\* no instance, after plugin_config has been assigned
set_plugin_config(t) ==
    /\ CanStart(t)
    /\ \E j \in 1..Len(plugin_containers), new_config \in Configs :
         LET u == plugin_containers[j]
             me == [op |-> "set_plugin_config", pc |-> "config_dump",
                    idx |-> j, new_config |-> new_config]
         IN IF rc[u].plugin_inst = NoInst
            THEN /\ rc' = [rc EXCEPT ![u].plugin_config = new_config]
                 /\ tasks' = [tasks EXCEPT ![t] = Done(me, "raise")]
            ELSE /\ rc' = [rc EXCEPT ![u].plugin_config = new_config,
                                     ![u].plugin_inst = Inst(new_config)]
                 /\ tasks' = [tasks EXCEPT ![t] = me]
    /\ UNCHANGED <<modules, loader_plugins, last_call, installed, store, plugin_containers>>

config_dump(t) ==
    /\ tasks[t].op = "set_plugin_config"
    /\ tasks[t].pc = "config_dump"
    /\ store' = DumpSetting(store, plugin_containers[tasks[t].idx], rc)
    /\ Finish(t, "None")
    /\ UNCHANGED <<modules, loader_plugins, last_call, installed, plugin_containers, rc>>

\* ------------------------------------- install, uninstall, update, reload
\* install_plugin and update_plugin start by awaiting the installer
install_plugin(t) ==
    /\ CanStart(t)
    /\ \E source \in Units :
         tasks' = [tasks EXCEPT ![t] =
            [op |-> "install_plugin", pc |-> "installer", source |-> source,
             log |-> <<"installer">>]]
    /\ UNCHANGED <<modules, loader_plugins, last_call, installed, store, plugin_containers, rc>>

update_plugin(t) ==
    /\ CanStart(t)
    /\ \E plugin_name \in Names :
         tasks' = [tasks EXCEPT ![t] =
            [op |-> "update_plugin", pc |-> "installer",
             plugin_name |-> plugin_name, log |-> <<"installer">>]]
    /\ UNCHANGED <<modules, loader_plugins, last_call, installed, store, plugin_containers, rc>>

\* uninstall_plugin: unknown name raises ValueError; a container that is
\* INITIALIZED has its destroy hook awaited before the installer is called
uninstall_plugin(t) ==
    /\ CanStart(t)
    /\ \E plugin_name \in Names :
         LET idx == IndexByName(plugin_containers, plugin_name)
             me == [op |-> "uninstall_plugin", pc |-> "installer",
                    plugin_name |-> plugin_name, idx |-> idx, log |-> <<>>,
                    plugin |-> IF idx = 0 THEN 0 ELSE plugin_containers[idx],
                    was |-> IF idx = 0 THEN NewContainer(0)
                            ELSE rc[plugin_containers[idx]]]
         IN tasks' = [tasks EXCEPT ![t] =
               IF idx = 0 THEN Done(me, "raise")
               ELSE IF NeedsDestroy(rc[plugin_containers[idx]])
               THEN [me EXCEPT !.pc = "uninstall_hook", !.log = <<"destroy">>]
               ELSE [me EXCEPT !.log = <<"installer">>]]
    /\ UNCHANGED <<modules, loader_plugins, last_call, installed, store, plugin_containers, rc>>

uninstall_hook(t) ==
    /\ tasks[t].op = "uninstall_plugin"
    /\ tasks[t].pc = "uninstall_hook"
    /\ \E ok \in BOOLEAN :
         IF ok
         THEN /\ rc' = MarkDestroyed(rc, tasks[t].plugin)
              /\ tasks' = [tasks EXCEPT ![t].pc = "installer",
                                        ![t].log = Append(@, "installer")]
         ELSE /\ Finish(t, "raise")
              /\ UNCHANGED rc
    /\ UNCHANGED <<modules, loader_plugins, last_call, installed, store, plugin_containers>>

\* what the installer's success does to plugins/
InstallerEffect(task, inst) ==
    CASE task.op = "install_plugin" -> inst \cup {task.source}
      [] task.op = "uninstall_plugin" ->
            inst \ {u \in Units : UnitName(u) = task.plugin_name}
      [] OTHER -> inst

\* whether ap.reload is called once the await of the installer is over:
\* the call follows the await, so only when the installer did not raise
ReloadRequestedAlways(ok) == TRUE

ReloadRequested(ok) == ok

\* the installer returns, and ap.reload is called, or it raises
installer(t) ==
    /\ tasks[t].op \in {"install_plugin", "uninstall_plugin", "update_plugin"}
    /\ tasks[t].pc = "installer"
    /\ \E ok \in BOOLEAN :
         /\ installed' = IF ok THEN InstallerEffect(tasks[t], installed)
                          ELSE installed
         /\ LET log == tasks[t].log \o (IF ok THEN <<>> ELSE <<"raised">>)
            IN tasks' = [tasks EXCEPT ![t] =
                  IF ReloadRequested(ok)
                  THEN [@ EXCEPT !.pc = "reload", !.log = Append(log, "reload")]
                  ELSE Done([@ EXCEPT !.log = log], "raise")]
    /\ UNCHANGED <<modules, loader_plugins, last_call, store, plugin_containers, rc>>

\* ap.reload(scope='plugin'): the descriptors in memory are discarded and
\* load_plugins and initialize_plugins run again
reload(t) ==
    /\ tasks[t].op # "idle"
    /\ tasks[t].pc = "reload"
    /\ plugin_containers' = <<>>
    /\ loader_plugins' = <<>>
    /\ rc' = [u \in Units |-> NewContainer(0)]
    /\ tasks' = [tasks EXCEPT ![t].pc = "load_plugins"]
    /\ UNCHANGED <<modules, last_call, installed, store>>

\* ----------------------------------------------------------- emit_event
\* what one handler does with the context before it returns or throws:
\* prevent_default(), prevent_postorder(), add_return(key, value)
Behaviours ==
    [prevent_default : BOOLEAN, prevent_postorder : BOOLEAN, throws : BOOLEAN,
     returns : {<<>>} \cup {<<k, v>> : k \in Keys, v \in Values}]

NewContext ==
    [prevent_default |-> FALSE, prevent_postorder |-> FALSE,
     return_value |-> [k \in Keys |-> <<>>]]

HandlerEffect(ctx, b) ==
    [prevent_default |-> ctx.prevent_default \/ b.prevent_default,
     prevent_postorder |-> ctx.prevent_postorder \/ b.prevent_postorder,
     return_value |->
        IF b.returns = <<>> THEN ctx.return_value
        ELSE [ctx.return_value EXCEPT ![b.returns[1]] = Append(@, b.returns[2])]]

\* plugins(enabled=True, status=INITIALIZED): a new, filtered list
EnabledInitialized(list, cont) ==
    SelectSeq(list, LAMBDA u : cont[u].enabled /\ cont[u].status = "INITIALIZED")

\* the next container of the walk, from position i on, that has a handler
\* for the event's class; 0 when there is none
NextHandler(walk, i, event_type) ==
    LET hits == {j \in i..Len(walk) : event_type \in event_handlers(walk[j])}
    IN IF hits = {} THEN 0 ELSE CHOOSE j \in hits : \A k \in hits : j <= k

\* except Exception: no throw of a handler leaves emit_event
EscapesAlways(b) == TRUE

EscapesWhenThrown(b) == b.throws

Escapes(b) == FALSE

\* whether the walk goes on after an invocation
WalkOnAlways(ctx) == TRUE

WalkOnUnlessDefaultPrevented(ctx) == ~ctx.prevent_postorder /\ ~ctx.prevent_default

WalkOn(ctx) == ~ctx.prevent_postorder

\* the value the merge applies for a key that has contributions
AppliedLast(contributions) == contributions[Len(contributions)]

Applied(contributions) == contributions[1]

\* the merge after the walk: an attribute the event has gets the key's
\* first contribution
MergeReturnEveryKey(event, return_value) ==
    [f \in DOMAIN event \cup {k \in Keys : return_value[k] # <<>>} |->
        IF f \in Keys /\ return_value[f] # <<>> THEN Applied(return_value[f])
        ELSE event[f]]

MergeReturn(event, return_value) ==
    [f \in DOMAIN event |->
        IF f \in Keys /\ return_value[f] # <<>> THEN Applied(return_value[f])
        ELSE event[f]]

EmitDone(task) ==
    Done([task EXCEPT !.event = MergeReturn(task.event, task.ctx.return_value)], "ctx")

\* the list the for loop of emit_event iterates: plugins(enabled=True,
\* status=INITIALIZED) built it once, when the loop was entered
VisitedLive(task, list, cont) == EnabledInitialized(list, cont)

Visited(task, list, cont) == task.walk

\* what the container is when its handler is called with its plugin_inst
Invocation(container) ==
    [enabled |-> container.enabled, status |-> container.status,
     plugin_inst |-> container.plugin_inst]

emit_event(t) ==
    /\ CanStart(t)
    /\ \E event_type \in EventTypes :
         LET walk == EnabledInitialized(plugin_containers, rc)
             j == NextHandler(walk, 1, event_type)
             me == [op |-> "emit_event", pc |-> "handler",
                    event_type |-> event_type,
                    event |-> [f \in EventFields |-> "orig"],
                    ctx |-> NewContext, walk |-> walk, i |-> j,
                    \* the container whose handler is awaited, 0 for none
                    plugin |-> IF j = 0 THEN 0 ELSE walk[j],
                    \* of each invocation: the container as it was
                    invoked |-> IF j = 0 THEN <<>>
                                ELSE <<Invocation(rc[walk[j]])>>,
                    emitted_plugins |-> <<>>,
                    \* of each invocation: whether the handler threw, and
                    \* prevent_postorder as it was when the handler was called
                    threw |-> <<>>, postorder_at_call |-> <<>>,
                    \* the add_return calls of the handlers, in order
                    returned |-> <<>>]
         IN tasks' = [tasks EXCEPT ![t] = IF j = 0 THEN EmitDone(me) ELSE me]
    /\ UNCHANGED <<modules, loader_plugins, last_call, installed, store, plugin_containers, rc>>

\* handlers that leave the event alone and return: all they may do is
\* set prevent_postorder
PlainBehaviours ==
    {b \in Behaviours : ~b.prevent_default /\ ~b.throws /\ b.returns = <<>>}

\* the awaited handler, one of those given, returns or throws; the walk
\* breaks, ends, or goes on to the next handler, which is called
Handle(t, behaviours) ==
    /\ tasks[t].op = "emit_event"
    /\ tasks[t].pc = "handler"
    /\ \E b \in behaviours :
         LET me == tasks[t]
             ctx == HandlerEffect(me.ctx, b)
             seq == Visited(me, plugin_containers, rc)
             j == IF WalkOn(ctx) THEN NextHandler(seq, me.i + 1, me.event_type)
                  ELSE 0
             after == [me EXCEPT !.ctx = ctx,
                                 !.emitted_plugins = Append(@, me.plugin),
                                 !.threw = Append(@, b.throws),
                                 !.postorder_at_call =
                                    Append(@, me.ctx.prevent_postorder),
                                 !.returned = @ \o (IF b.returns = <<>> THEN <<>>
                                                    ELSE <<b.returns>>),
                                 !.i = j,
                                 !.plugin = IF j = 0 THEN 0 ELSE seq[j],
                                 !.invoked = IF j = 0 THEN @
                                             ELSE Append(@, Invocation(rc[seq[j]]))]
         IN tasks' = [tasks EXCEPT ![t] =
               IF Escapes(b) THEN Done(after, "raise")
               ELSE IF j = 0 THEN EmitDone(after) ELSE after]
    /\ UNCHANGED <<modules, loader_plugins, last_call, installed, store, plugin_containers, rc>>

handler(t) == Handle(t, Behaviours)

\* the same for plugins whose handlers leave the event alone
handler_plain(t) == Handle(t, PlainBehaviours)

\* what is remembered of a call once it has returned: a disabling that
\* went through, with the container's state when it was called, or the
\* priorities a reorder was asked for
Remembered(task) ==
    CASE task.op = "update_plugin_switch" /\ task.ret = "True" /\ ~task.new_status ->
            [kind |-> "disabled", plugin_name |-> task.plugin_name,
             was |-> task.was]
      [] task.op = "reorder_plugins" ->
            [kind |-> "reordered", requested |-> task.requested]
      [] OTHER -> [kind |-> "other"]

\* the coroutine's result has been taken by its caller, and nothing of
\* the call is remembered
Forget(t) ==
    /\ tasks[t].op # "idle"
    /\ tasks[t].pc = "done"
    /\ tasks' = [tasks EXCEPT ![t] = Idle]
    /\ last_call' = [kind |-> "other"]
    /\ UNCHANGED <<modules, loader_plugins, installed, store, plugin_containers, rc>>

\* the coroutine's result has been taken by its caller
Return(t) ==
    /\ tasks[t].op # "idle"
    /\ tasks[t].pc = "done"
    /\ tasks' = [tasks EXCEPT ![t] = Idle]
    /\ last_call' = Remembered(tasks[t])
    /\ UNCHANGED <<modules, loader_plugins, installed, store, plugin_containers, rc>>

\* ---------------------------------------------------- specifications
\* the application's start-up and the loading it shares with reload
Startup(t) ==
    \/ load_plugins(t)
    \/ load_plugin_settings(t)
    \/ initialize_plugins(t)
    \/ initialize_hook(t)

Switch(t) ==
    \/ update_plugin_switch(t)
    \/ switch_hook(t)
    \/ switch_dump(t)

Destroy(t) ==
    \/ destroy_plugin(t)
    \/ destroy_plugins(t)
    \/ destroy_hook(t)

Reorder(t) ==
    \/ reorder_plugins(t)
    \/ reorder_dump(t)

Config(t) ==
    \/ set_plugin_config(t)
    \/ config_dump(t)

Update(t) ==
    \/ update_plugin(t)
    \/ installer(t)
    \/ reload(t)

Install(t) ==
    \/ install_plugin(t)
    \/ uninstall_plugin(t)
    \/ uninstall_hook(t)
    \/ Update(t)

Emit(t) ==
    \/ emit_event(t)
    \/ handler(t)

Next ==
    \E t \in TaskIds :
        \/ call_load_plugins(t) \/ persistence_fails(t) \/ Destroy(t)
        \/ Startup(t) \/ Switch(t) \/ Reorder(t) \/ Config(t) \/ Install(t) \/ Emit(t)
        \/ Return(t)

Spec == Init /\ [][Next]_vars

\* The manager driven through a part of its interface, one call at a time.
NextSwitch == \E t \in Serial : Startup(t) \/ Switch(t) \/ Config(t) \/ Return(t)
SpecSwitch == Init /\ [][NextSwitch]_vars

NextLoad == \E t \in Serial : Startup(t) \/ Reorder(t) \/ Install(t) \/ Forget(t)
SpecLoad == Init /\ [][NextLoad]_vars

NextDispatch ==
    \E t \in Serial : Startup(t) \/ Switch(t) \/ Reorder(t) \/ Emit(t) \/ Forget(t)
SpecDispatch == Init /\ [][NextDispatch]_vars

\* the load of a plugins/ directory with modules of every kind
NextDiscover == \E t \in Serial : load_plugins(t) \/ load_plugin_settings(t)
SpecDiscover == InitDiscover /\ [][NextDiscover]_vars

\* emissions whose handlers all terminate: an awaited handler returns or
\* throws in the end
NextEmit == \E t \in Serial : Startup(t) \/ Switch(t) \/ Emit(t) \/ Forget(t)
SpecEmitFair ==
    Init /\ [][NextEmit]_vars /\ \A t \in Serial : WF_vars(handler(t))

\* the emissions of one caller, and plugins switched by another caller
\* while the first is at an await
NextEmitSwitch ==
    \/ \E t \in Serial : Startup(t) \/ emit_event(t) \/ handler_plain(t) \/ Forget(t)
    \/ \E t \in TaskIds \ Serial : Switch(t) \/ Forget(t)
SpecEmitSwitch == Init /\ [][NextEmitSwitch]_vars

\* the same with the other caller reordering the plugins as well
NextEmitMutate ==
    \/ \E t \in Serial : Startup(t) \/ emit_event(t) \/ handler_plain(t) \/ Forget(t)
    \/ \E t \in TaskIds \ Serial :
          Switch(t) \/ reorder_front(t) \/ reorder_dump(t) \/ Forget(t)
SpecEmitMutate == Init /\ [][NextEmitMutate]_vars

\* two callers: a call is started while another is at one of its awaits
NextConcurrent == \E t \in TaskIds : Startup(t) \/ Switch(t) \/ Forget(t)
SpecConcurrent == Init /\ [][NextConcurrent]_vars

\* loading with a settings store that can fail
NextFaultyStore ==
    \E t \in Serial :
        Startup(t) \/ persistence_fails(t) \/ Reorder(t) \/ Update(t) \/ Forget(t)
SpecFaultyStore == Init /\ [][NextFaultyStore]_vars

\* plugins destroyed, one or all, and switched off and on
NextDestroy == \E t \in Serial : Startup(t) \/ Destroy(t) \/ Switch(t) \/ Forget(t)
SpecDestroy == Init /\ [][NextDestroy]_vars

\* every mutation of the list, and the reload that loads it again
NextMutate ==
    \E t \in Serial : Startup(t) \/ Switch(t) \/ Reorder(t) \/ Update(t) \/ Forget(t)
SpecMutate == Init /\ [][NextMutate]_vars

\* load_plugins called again on the same manager
NextLoadTwice == \E t \in Serial : Startup(t) \/ call_load_plugins(t) \/ Forget(t)
SpecLoadTwice == Init /\ [][NextLoadTwice]_vars

NextReorder == \E t \in Serial : Startup(t) \/ Reorder(t) \/ Update(t) \/ Return(t)
SpecReorder == Init /\ [][NextReorder]_vars

\* ------------------------------------------------------------- dispatch
Returned(t) == tasks[t].op = "emit_event" /\ tasks[t].pc = "done"

\* the containers of an emission's walk that have a handler for its event
WithHandler(task) ==
    SelectSeq(task.walk, LAMBDA u : task.event_type \in event_handlers(u))

PostorderStopsWalk ==
    \A t \in TaskIds :
        tasks[t].op = "emit_event" =>
            /\ \A k \in 1..Len(tasks[t].postorder_at_call) :
                    ~tasks[t].postorder_at_call[k]
            /\ tasks[t].ctx.prevent_postorder => tasks[t].pc = "done"

\* the second of three handlers set the flag, the third was not invoked
PostorderStopsWalkWitness ==
    \E t \in TaskIds :
        /\ Returned(t)
        /\ tasks[t].ctx.prevent_postorder
        /\ Len(tasks[t].emitted_plugins) = 2
        /\ Len(WithHandler(tasks[t])) = 3

\* the values handlers returned for a key, in the order of their calls
Contributions(task, key) ==
    LET calls == SelectSeq(task.returned, LAMBDA r : r[1] = key)
    IN [j \in 1..Len(calls) |-> calls[j][2]]

\* C3: after the merge an attribute of the event that handlers returned
\* values for holds the first of them, and the context's map holds every
\* value returned for every key, in the order of the calls.
FirstWriterWins ==
    \A t \in TaskIds :
        Returned(t) =>
            /\ \A f \in EventFields :
                 tasks[t].event[f] =
                    IF Contributions(tasks[t], f) = <<>> THEN "orig"
                    ELSE Contributions(tasks[t], f)[1]
            /\ \A k \in Keys :
                 tasks[t].ctx.return_value[k] = Contributions(tasks[t], k)

FirstWriterWinsWitness ==
    \E t \in TaskIds :
        /\ Returned(t)
        /\ tasks[t].returned = << <<"text", "x">>, <<"text", "y">> >>
        /\ tasks[t].event["text"] = "x"
        /\ tasks[t].ctx.return_value["text"] = <<"x", "y">>

\* C4: emit_event returns its context whatever the handlers threw, and a
\* walk that did not reach every container with a handler was ended by
\* prevent_postorder, never by a throw.
ThrowDoesNotEndWalk ==
    \A t \in TaskIds :
        Returned(t) =>
            /\ tasks[t].ret = "ctx"
            /\ tasks[t].emitted_plugins =
                  SubSeq(WithHandler(tasks[t]), 1, Len(tasks[t].emitted_plugins))
            /\ Len(tasks[t].emitted_plugins) < Len(WithHandler(tasks[t]))
                  => tasks[t].ctx.prevent_postorder

\* the first handler threw and the two after it were invoked
ThrowDoesNotEndWalkWitness ==
    \E t \in TaskIds :
        /\ Returned(t)
        /\ tasks[t].threw = <<TRUE, FALSE, FALSE>>
        /\ tasks[t].emitted_plugins = WithHandler(tasks[t])
        /\ tasks[t].ret = "ctx"

\* C5: what emit_event does after a handler has returned is decided by
\* prevent_postorder and the walk alone, so prevent_default changes nothing
\* of it; an emission in which prevent_default was set and prevent_postorder
\* was not has invoked every container with a handler.
PreventDefaultIgnored ==
    /\ [][\A t \in TaskIds :
            (tasks[t].op = "emit_event" /\ tasks[t].pc = "handler"
                /\ tasks'[t] # tasks[t]) =>
                LET me == tasks[t]
                    j == NextHandler(me.walk, me.i + 1, me.event_type)
                IN /\ tasks'[t].emitted_plugins =
                        Append(me.emitted_plugins, me.walk[me.i])
                   /\ tasks'[t].pc = "done"
                        <=> (tasks'[t].ctx.prevent_postorder \/ j = 0)
                   /\ tasks'[t].pc = "handler" => tasks'[t].i = j]_vars
    /\ [](\A t \in TaskIds :
            (Returned(t) /\ ~tasks[t].ctx.prevent_postorder) =>
                tasks[t].emitted_plugins = WithHandler(tasks[t]))

\* A at priority 0 and B at a higher one, both invoked, prevent_default set
PreventDefaultIgnoredWitness ==
    \E t \in TaskIds :
        /\ Returned(t)
        /\ Len(tasks[t].emitted_plugins) = 2
        /\ tasks[t].emitted_plugins = tasks[t].walk
        /\ rc[tasks[t].walk[1]].priority = 0
        /\ rc[tasks[t].walk[2]].priority = MaxPriority
        /\ tasks[t].ctx.prevent_default
        /\ ~tasks[t].ctx.prevent_postorder

\* ------------------------------------------------------------ lifecycle
\* load_plugins has returned to the start-up or the reload that called it
Loaded(t) ==
    /\ tasks[t].op # "idle"
    /\ tasks[t].pc = "initialize_plugins"
    /\ tasks[t].i = 1

UninstallDestroysFirst ==
    \A t \in TaskIds :
        tasks[t].op = "uninstall_plugin" =>
            LET me == tasks[t]
                destroys == {k \in 1..Len(me.log) : me.log[k] = "destroy"}
            IN /\ me.idx = 0 =>
                    me.pc = "done" /\ me.ret = "raise" /\ me.log = <<>>
               /\ (me.idx # 0 /\ me.was.status = "INITIALIZED") =>
                    /\ destroys = {1}
                    /\ (me.pc = "done" /\ me.ret = "None") =>
                          me.log = <<"destroy", "installer", "reload">>
               /\ (me.idx # 0 /\ me.was.status # "INITIALIZED") =>
                    /\ destroys = {}
                    /\ (me.pc = "done" /\ me.ret = "None") =>
                          me.log = <<"installer", "reload">>

UninstallDestroysFirstWitness ==
    \E t \in TaskIds :
        /\ tasks[t].op = "uninstall_plugin"
        /\ tasks[t].pc = "done"
        /\ tasks[t].ret = "None"
        /\ tasks[t].was.status = "INITIALIZED"
        /\ tasks[t].log = <<"destroy", "installer", "reload">>

\* an enabling update_plugin_switch has returned True right after a
\* disabling one of the same name did, on a container that was enabled and
\* INITIALIZED
Reenabled(t) ==
    /\ tasks[t].op = "update_plugin_switch"
    /\ tasks[t].pc = "done"
    /\ tasks[t].ret = "True"
    /\ tasks[t].new_status
    /\ last_call.kind = "disabled"
    /\ last_call.plugin_name = tasks[t].plugin_name
    /\ last_call.was.enabled
    /\ last_call.was.status = "INITIALIZED"

\* C8: disabling an enabled, INITIALIZED plugin and enabling it again, both
\* calls returning True, leaves the container enabled and INITIALIZED with
\* an instance, and the container's config and the instance's config are
\* the config the container had when the disabling was called.
DisableEnableRoundTrip ==
    \A t \in TaskIds :
        Reenabled(t) =>
            LET u == plugin_containers[tasks[t].idx]
            IN /\ rc[u].enabled
               /\ rc[u].status = "INITIALIZED"
               /\ rc[u].plugin_config = last_call.was.plugin_config
               /\ rc[u].plugin_inst = Inst(last_call.was.plugin_config)

\* the round trip of a plugin whose config had been set to c1
DisableEnableRoundTripWitness ==
    \E t \in TaskIds :
        /\ Reenabled(t)
        /\ last_call.was.plugin_config = "c1"
        /\ rc[plugin_containers[tasks[t].idx]].plugin_inst = Inst("c1")

\* C9: when load_plugins has returned in the reload that follows a reorder,
\* every container the reorder named has the priority the reorder asked
\* for, in memory and in its settings row.
ReorderSurvivesLoad ==
    \A t \in TaskIds :
        (/\ tasks[t].op = "update_plugin"
         /\ tasks[t].pc \in {"initialize_plugins", "initialize_hook", "done"}
         /\ tasks[t].pc = "done" => tasks[t].ret = "None"
         /\ last_call.kind = "reordered") =>
            \A a \in 1..Len(plugin_containers) :
                LET u == plugin_containers[a]
                IN last_call.requested[u] >= 0 =>
                     /\ rc[u].priority = last_call.requested[u]
                     /\ store[u] # <<>>
                     /\ Head(store[u]).priority = last_call.requested[u]

\* unit 1, discovered first with priority 0, reordered to MaxPriority
ReorderSurvivesLoadWitness ==
    \E t \in TaskIds :
        /\ tasks[t].op = "update_plugin"
        /\ tasks[t].pc = "done"
        /\ tasks[t].ret = "None"
        /\ last_call.kind = "reordered"
        /\ last_call.requested[1] = MaxPriority
        /\ Len(plugin_containers) > 1
        /\ plugin_containers[Len(plugin_containers)] = 1
        /\ rc[1].priority = MaxPriority
        /\ store[1] # <<>>
        /\ Head(store[1]).priority = MaxPriority

Switched(t) == tasks[t].op = "update_plugin_switch" /\ tasks[t].pc = "done"

\* C10 as claimed: update_plugin_switch returns False for an unknown name,
\* True when the flag is already the requested one, and True after
\* toggling.
SwitchReturnsTrueIfUnchanged ==
    \A t \in TaskIds :
        Switched(t) =>
            /\ tasks[t].idx = 0 => tasks[t].ret = "False"
            /\ (tasks[t].idx # 0 /\ tasks[t].was.enabled = tasks[t].new_status)
                  => tasks[t].ret = "True"
            /\ (tasks[t].idx # 0 /\ tasks[t].was.enabled # tasks[t].new_status
                    /\ tasks[t].ret # "raise")
                  => tasks[t].ret = "True"

\* C10: update_plugin_switch returns False for an unknown name; when the
\* flag is already the requested one it returns False and leaves the
\* container as it was; when it returns True the flag differed and has
\* been toggled, in the container and in its settings row, and unless a
\* hook raised it returns True whenever the flag differed.
SwitchReturnValue ==
    \A t \in TaskIds :
        Switched(t) =>
            /\ tasks[t].idx = 0 => tasks[t].ret = "False"
            /\ (tasks[t].idx # 0 /\ tasks[t].was.enabled = tasks[t].new_status) =>
                  /\ tasks[t].ret = "False"
                  /\ rc[plugin_containers[tasks[t].idx]] = tasks[t].was
            /\ (tasks[t].idx # 0 /\ tasks[t].was.enabled # tasks[t].new_status
                    /\ tasks[t].ret # "raise")
                  => tasks[t].ret = "True"
            /\ tasks[t].ret = "True" =>
                  LET u == plugin_containers[tasks[t].idx]
                  IN /\ tasks[t].was.enabled # tasks[t].new_status
                     /\ rc[u].enabled = tasks[t].new_status
                     /\ Head(store[u]).enabled = tasks[t].new_status

\* a known plugin, already enabled, is enabled: False
SwitchReturnValueWitness ==
    \E t \in TaskIds :
        /\ Switched(t)
        /\ tasks[t].idx # 0
        /\ tasks[t].new_status
        /\ tasks[t].was.enabled
        /\ tasks[t].ret = "False"

\* ------------------------------------------------------------ invariants
\* no call is in flight on the manager
Quiescent == \A t \in TaskIds : tasks[t].op = "idle" \/ tasks[t].pc = "done"

\* C11: whenever no call is in flight, each container of the list has an
\* instance if and only if its status is INITIALIZED.
InstanceIffInitialized ==
    Quiescent =>
        \A a \in 1..Len(plugin_containers) :
            LET u == plugin_containers[a]
            IN rc[u].plugin_inst # NoInst <=> rc[u].status = "INITIALIZED"

\* C12: no two containers of the list have the same plugin_author and
\* plugin_name (one author here, so the same plugin_name).
UniqueIdentity ==
    \A a, b \in 1..Len(plugin_containers) :
        a # b => UnitName(plugin_containers[a]) # UnitName(plugin_containers[b])

\* a load, an update_plugin_switch or a reorder_plugins has completed
Mutated(t) ==
    \/ Loaded(t)
    \/ /\ tasks[t].op \in {"update_plugin_switch", "reorder_plugins"}
       /\ tasks[t].pc = "done"
       /\ tasks[t].ret # "raise"

InitFailureContained ==
    \A t \in TaskIds :
        (tasks[t].op # "idle" /\ tasks[t].pc = "done"
            /\ "failed" \in DOMAIN tasks[t]) =>
            /\ tasks[t].ret = "None"
            /\ \A a \in 1..Len(plugin_containers) :
                 LET u == plugin_containers[a]
                 IN rc[u].status =
                        IF rc[u].enabled /\ u \notin tasks[t].failed
                        THEN "INITIALIZED" ELSE "MOUNTED"

\* of three enabled plugins the second one's hook threw
InitFailureContainedWitness ==
    \E t \in TaskIds :
        /\ tasks[t].op # "idle"
        /\ tasks[t].pc = "done"
        /\ "failed" \in DOMAIN tasks[t]
        /\ Len(plugin_containers) = 3
        /\ tasks[t].failed = {plugin_containers[2]}
        /\ \A a \in 1..3 : rc[plugin_containers[a]].enabled
        /\ rc[plugin_containers[1]].status = "INITIALIZED"
        /\ rc[plugin_containers[2]].status = "MOUNTED"
        /\ rc[plugin_containers[3]].status = "INITIALIZED"

\* C15: destroy_plugin returns normally; it leaves a container that was
\* not INITIALIZED as it was, and a container that was INITIALIZED ends
\* MOUNTED with no instance, whether or not the destroy hook threw.
DestroyBestEffort ==
    \A t \in TaskIds :
        (tasks[t].op = "destroy_plugin" /\ tasks[t].pc = "done") =>
            LET u == tasks[t].plugin
            IN /\ tasks[t].ret = "None"
               /\ IF tasks[t].was.status # "INITIALIZED"
                  THEN rc[u] = tasks[t].was
                  ELSE rc[u].status = "MOUNTED" /\ rc[u].plugin_inst = NoInst

\* C16: a load in which the settings store failed for one container has
\* not raised when it is over: it ends with the list sorted, the failing
\* container as it was discovered and every other container merged with
\* its settings row.
MergeSurvivesStoreFailure ==
    \A t \in TaskIds :
        (tasks[t].op # "idle" /\ tasks[t].pc = "done"
            /\ "store_failed" \in DOMAIN tasks[t]) =>
            /\ tasks[t].ret # "raise"
            /\ \A a, b \in 1..Len(plugin_containers) :
                 a < b => rc[plugin_containers[a]].priority
                             <= rc[plugin_containers[b]].priority
            /\ \A a \in 1..Len(plugin_containers) :
                 LET u == plugin_containers[a]
                 IN u # tasks[t].store_failed =>
                      /\ store[u] # <<>>
                      /\ rc[u].priority = Head(store[u]).priority
                      /\ rc[u].enabled = Head(store[u]).enabled
                      /\ rc[u].plugin_config = Head(store[u]).config

\* ---------------------------------------------------------------- merge
\* C17: each step of the merge handles one container: with no settings
\* row, a row with the container's enabled, priority and config is inserted
\* and the container is unchanged; with a row, the three are overwritten
\* from the row and the row is unchanged. No other container or row is
\* touched.
SettingsMerge ==
    [][\A t \in TaskIds :
         (tasks[t].op # "idle" /\ tasks[t].pc = "load_plugin_settings"
             /\ tasks'[t] # tasks[t]) =>
             LET u == plugin_containers[tasks[t].i]
             IN /\ IF store[u] = <<>>
                   THEN /\ store'[u] = <<[enabled |-> rc[u].enabled,
                                          priority |-> rc[u].priority,
                                          config |-> rc[u].plugin_config]>>
                        /\ rc'[u] = rc[u]
                   ELSE /\ rc'[u] = [rc[u] EXCEPT
                                        !.enabled = Head(store[u]).enabled,
                                        !.priority = Head(store[u]).priority,
                                        !.plugin_config = Head(store[u]).config]
                        /\ store'[u] = store[u]
                /\ \A v \in Units \ {u} : rc'[v] = rc[v] /\ store'[v] = store[v]]_vars

\* an install's reload: unit 1 has taken MaxPriority from its row, and
\* unit 2, new, has no row yet
SettingsMergeWitness ==
    \E t \in TaskIds :
        /\ tasks[t].op = "install_plugin"
        /\ tasks[t].pc = "load_plugin_settings"
        /\ tasks[t].i = 2
        /\ plugin_containers = <<1, 2>>
        /\ store[1] # <<>>
        /\ Head(store[1]).priority = MaxPriority
        /\ rc[1].priority = MaxPriority
        /\ store[2] = <<>>

\* -------------------------------------------------------------- reorder
\* C18: reorder_plugins gives each container of the list that an entry
\* names the priority asked for it, leaves every other container as it
\* was (names no container has are passed over), and leaves the list a
\* rearrangement of itself in ascending order of priority; when it has
\* returned, the settings row of every container of the list holds the
\* container's enabled, priority and config.
ReorderFrame ==
    /\ [][\A t \in TaskIds :
            (tasks[t] = Idle /\ tasks'[t].op = "reorder_plugins") =>
                LET listed == {plugin_containers[a] : a \in 1..Len(plugin_containers)}
                    asked == tasks'[t].requested
                IN /\ \A u \in Units :
                        rc'[u] = IF u \in listed /\ asked[u] >= 0
                                 THEN [rc[u] EXCEPT !.priority = asked[u]]
                                 ELSE rc[u]
                   /\ Len(plugin_containers') = Len(plugin_containers)
                   /\ \A u \in listed :
                        \E a \in 1..Len(plugin_containers') : plugin_containers'[a] = u
                   /\ \A a, b \in 1..Len(plugin_containers') :
                        a < b => rc'[plugin_containers'[a]].priority
                                    <= rc'[plugin_containers'[b]].priority]_vars
    /\ [](\A t \in TaskIds :
            (tasks[t].op = "reorder_plugins" /\ tasks[t].pc = "done") =>
                /\ tasks[t].ret = "None"
                /\ \A a \in 1..Len(plugin_containers) :
                     LET u == plugin_containers[a]
                     IN /\ store[u] # <<>>
                        /\ Head(store[u]) = [enabled |-> rc[u].enabled,
                                             priority |-> rc[u].priority,
                                             config |-> rc[u].plugin_config])

\* only unit 1 was named: it is last now, with its row rewritten, and
\* units 2 and 3 have the priorities of their discovery
ReorderFrameWitness ==
    \E t \in TaskIds :
        /\ tasks[t].op = "reorder_plugins"
        /\ tasks[t].pc = "done"
        /\ tasks[t].requested = [u \in Units |-> IF u = 1 THEN MaxPriority ELSE -1]
        /\ plugin_containers = <<2, 3, 1>>
        /\ rc[2].priority = 1
        /\ rc[1].priority = MaxPriority
        /\ store[1] # <<>>
        /\ Head(store[1]).priority = MaxPriority

\* -------------------------------------------------------------- install
\* C19: install_plugin, uninstall_plugin and update_plugin call reload at
\* most once, right after the installer has returned; an installer that
\* raised ends the call with its exception and no reload; a call that
\* returns has called reload exactly once.
ReloadOnceAfterInstaller ==
    \A t \in TaskIds :
        tasks[t].op \in {"install_plugin", "uninstall_plugin", "update_plugin"} =>
            LET log == tasks[t].log
                reloads == {k \in 1..Len(log) : log[k] = "reload"}
                raised == \E k \in 1..Len(log) : log[k] = "raised"
            IN /\ Cardinality(reloads) <= 1
               /\ \A k \in reloads : k > 1 /\ log[k - 1] = "installer"
               /\ raised => /\ reloads = {}
                            /\ tasks[t].pc = "done"
                            /\ tasks[t].ret = "raise"
               /\ (tasks[t].pc = "done" /\ tasks[t].ret = "None") =>
                     Cardinality(reloads) = 1

\* an update whose installer raised
ReloadOnceAfterInstallerWitness ==
    \E t \in TaskIds :
        /\ tasks[t].op = "update_plugin"
        /\ tasks[t].pc = "done"
        /\ tasks[t].ret = "raise"
        /\ tasks[t].log = <<"installer", "raised">>

\* ---------------------------------------------------------- concurrency
\* a mutation of the list has run its first step and not yet its last
Mutating(t) ==
    /\ tasks[t].op \in {"boot", "load_plugins", "update_plugin_switch",
                         "reorder_plugins", "uninstall_plugin"}
    /\ tasks[t].pc # "done"

\* the initialize hook of a plugin being enabled is awaited by the call
Enabling(t) ==
    /\ tasks[t].op = "update_plugin_switch"
    /\ tasks[t].pc = "switch_hook"
    /\ tasks[t].new_status

\* C20: no mutation of the list runs a step between the first and the last
\* step of another; in particular no two calls enabling one plugin both
\* run its initialize hook.
MutationsSerialized ==
    \A s, t \in TaskIds :
        s # t =>
            /\ ~(Mutating(s) /\ Mutating(t))
            /\ ~(Enabling(s) /\ Enabling(t) /\ tasks[s].plugin = tasks[t].plugin)

\* two calls enabling the same disabled plugin both await its hook, the
\* second having replaced the instance the first built
DoubleInitialize ==
    /\ Enabling(1) /\ Enabling(2)
    /\ tasks[1].plugin = tasks[2].plugin
    /\ ~tasks[1].was.enabled /\ ~tasks[2].was.enabled

\* C22: an update_plugin_switch enabling a disabled plugin whose
\* initialize hook threw has not raised; the container is MOUNTED with no
\* instance, and its enabled flag is the one of its settings row.
EnableFailureContained ==
    \A t \in TaskIds :
        (Switched(t) /\ tasks[t].new_status /\ "hook_threw" \in DOMAIN tasks[t]) =>
            LET u == tasks[t].plugin
            IN /\ tasks[t].ret # "raise"
               /\ rc[u].status = "MOUNTED"
               /\ rc[u].plugin_inst = NoInst
               /\ store[u] # <<>>
               /\ rc[u].enabled = Head(store[u]).enabled

\* ------------------------------------------------------------ emission
\* C24: with handlers that terminate, every emit_event returns its
\* context in the end, whatever the handlers threw and whichever flags
\* they set.
EmitReturns ==
    \A t \in TaskIds :
        (tasks[t].op = "emit_event") ~>
            (tasks[t].op = "emit_event" /\ tasks[t].pc = "done"
                /\ tasks[t].ret = "ctx")

\* two handlers threw, the second having set prevent_postorder with a
\* third handler still to come
EmitReturnsWitness ==
    \E t \in TaskIds :
        /\ Returned(t)
        /\ tasks[t].ret = "ctx"
        /\ tasks[t].threw = <<TRUE, TRUE>>
        /\ tasks[t].ctx.prevent_postorder
        /\ Len(WithHandler(tasks[t])) = 3

\* C25: a key handlers returned values for that is no attribute of the
\* event changes nothing of the event: when emit_event has returned, the
\* event has the attributes it came with and no other, nothing was raised,
\* the attributes that are keys are merged all the same, and the values
\* returned for the key are in the context's map.
UnknownKeyIgnored ==
    \A t \in TaskIds :
        Returned(t) =>
            /\ DOMAIN tasks[t].event = EventFields
            /\ tasks[t].ret = "ctx"
            /\ \A k \in Keys \ EventFields :
                 tasks[t].ctx.return_value[k] = Contributions(tasks[t], k)
            /\ \A f \in EventFields :
                 Contributions(tasks[t], f) # <<>> =>
                    tasks[t].event[f] = Contributions(tasks[t], f)[1]

\* one handler returned bogus, the next one text
UnknownKeyIgnoredWitness ==
    \E t \in TaskIds :
        /\ Returned(t)
        /\ tasks[t].returned = << <<"bogus", "x">>, <<"text", "y">> >>
        /\ tasks[t].event = [f \in EventFields |-> "y"]
        /\ tasks[t].ctx.return_value["bogus"] = <<"x">>

\* ---------------------------------------------------------------- config
\* C26: when set_plugin_config has returned or raised, the container's
\* config is the config of its settings row, and that of its instance if
\* it has one.
ConfigAllOrNothing ==
    \A t \in TaskIds :
        (tasks[t].op = "set_plugin_config" /\ tasks[t].pc = "done") =>
            LET u == plugin_containers[tasks[t].idx]
            IN /\ store[u] # <<>>
               /\ rc[u].plugin_config = Head(store[u]).config
               /\ rc[u].plugin_inst # NoInst =>
                     rc[u].plugin_inst = Inst(rc[u].plugin_config)

\* ------------------------------------------------------------ discovery
\* the module of unit u throws when executed
Throws(u) == \E k \in 1..Len(modules[u]) : modules[u][k] = "throw"

\* the module of unit u calls register
Registers(u) == \E k \in 1..Len(modules[u]) : modules[u][k] = "register"

InvokedLive ==
    \A t \in TaskIds :
        tasks[t].op = "emit_event" =>
            \A k \in 1..Len(tasks[t].invoked) :
                /\ tasks[t].invoked[k].enabled
                /\ tasks[t].invoked[k].status = "INITIALIZED"
                /\ tasks[t].invoked[k].plugin_inst # NoInst

\* the containers whose handlers an emission has called so far
Invocations(task) ==
    task.emitted_plugins \o (IF task.pc = "handler" THEN <<task.plugin>> ELSE <<>>)

\* C27: the list an emission walks is the enabled, INITIALIZED containers
\* in the order of the list when emit_event was called, and it does not
\* change while the emission runs; the handlers called are, in that order,
\* those of the walk's containers that have one, each called at most once,
\* whatever reorder or switch completes in between.
WalkFixedAtStart ==
    /\ [][\A t \in TaskIds :
            /\ (tasks[t] = Idle /\ tasks'[t].op = "emit_event") =>
                  tasks'[t].walk = EnabledInitialized(plugin_containers, rc)
            /\ (tasks[t].op = "emit_event" /\ tasks'[t].op = "emit_event") =>
                  tasks'[t].walk = tasks[t].walk]_vars
    /\ [](\A t \in TaskIds :
            tasks[t].op = "emit_event" =>
                LET called == Invocations(tasks[t])
                IN /\ Len(called) <= Len(WithHandler(tasks[t]))
                   /\ called = SubSeq(WithHandler(tasks[t]), 1, Len(called))
                   /\ \A a, b \in 1..Len(called) : a # b => called[a] # called[b])

\* units 1, 2, 3 were called in that order, unit 3 having been moved
\* before unit 2 by a reorder while the emission was at a handler
WalkFixedAtStartWitness ==
    /\ Returned(1)
    /\ tasks[1].emitted_plugins = <<1, 2, 3>>
    /\ plugin_containers = <<1, 3, 2>>
    /\ rc[3].priority < rc[2].priority

====
